---- MODULE Spec2Model ----
(***************************************************************************)
(* Model of the hierarchical listing of python_gdrive_organizer.py:         *)
(* DriveManager._fetch_all_files, _build_tree, _print_tree and list_files.  *)
(*                                                                          *)
(* A file record is [id, name, mimeType, parents].  Python objects are      *)
(* referred to by their 'id' (identifiers are unique within a batch), so    *)
(* a children list is a sequence of ids.  The keys 'children' and           *)
(* 'is_folder', which _build_tree adds to a record when the loop reaches    *)
(* it, live in `nodes`: a record has the keys iff its id is in DOMAIN nodes.*)
(* Names are sequences of code points, compared as Python compares str.     *)
(* `gui` is the state of GDriveApp of gdrive_gui.py: whether drive_manager  *)
(* is set, the text of status_var and the cursor of the window.             *)
(***************************************************************************)
EXTENDS Integers, Sequences, FiniteSets, TLC

VARIABLES pc, files, i, nodes, tree, stack, out, first_out, renders, gui

vars == <<pc, files, i, nodes, tree, stack, out, first_out, renders, gui>>

\* ---------------------------------------------------------------- bounds
MaxFiles == 3        \* records in one fetched batch
MaxParents == 2      \* entries in one record's parent list
MaxRefs == 3         \* parent entries in one batch, all records together
MaxRenders == 2      \* times one built forest is printed

\* ------------------------------------------------------------- constants
DRIVE_ROOT_ID == 0   \* an id that is never the id of a fetched record
NameWidth == 40      \* name[:40]

FolderMime == "application/vnd.google-apps.folder"
PlainMime == "application/octet-stream"

Apple == <<65, 112, 112, 108, 101>>
banana == <<98, 97, 110, 97, 110, 97>>
Cherry == <<67, 104, 101, 114, 114, 121>>
Names == {Apple, banana, Cherry}

\* ------------------------------------------------------------ the batches
RECURSIVE SeqsUpTo(_, _)
SeqsUpTo(S, n) ==
    IF n = 0 THEN {<<>>}
    ELSE LET shorter == SeqsUpTo(S, n - 1)
         IN  shorter \cup {Append(s, x) : s \in {t \in shorter : Len(t) = n - 1}, x \in S}

NoRepeat(s) == \A a, b \in 1..Len(s) : a # b => s[a] # s[b]

\* the parent lists a record of a batch of n records may carry: ids of the
\* batch and the id of the Drive root, no id twice
ParentLists(n) == {s \in SeqsUpTo((1..n) \cup {DRIVE_ROOT_ID}, MaxParents) : NoRepeat(s)}

RECURSIVE TotalRefs(_)
TotalRefs(fs) == IF fs = <<>> THEN 0 ELSE Len(Head(fs).parents) + TotalRefs(Tail(fs))

\* what files().list(...).execute().get('files', []) can return: the k-th
\* record has id k
Batches(n) ==
    {fs \in [1..n -> [id : 1..n, name : Names, mimeType : {FolderMime, PlainMime},
                      parents : ParentLists(n)]] :
        /\ \A k \in 1..n : fs[k].id = k
        /\ TotalRefs(fs) <= MaxRefs}

\* --------------------------------------------------------- pure functions
\* file_map = {file['id']: file for file in files}: id -> position of the
\* record (the last one, should an id repeat)
file_map(fs) ==
    [id \in {fs[k].id : k \in 1..Len(fs)} |->
        CHOOSE k \in 1..Len(fs) :
            /\ fs[k].id = id
            /\ \A m \in 1..Len(fs) : fs[m].id = id => m <= k]

Rec(fs, id) == fs[file_map(fs)[id]]

\* Python's str comparison a < b: by code point, a proper prefix is smaller
RECURSIVE StrLess(_, _)
StrLess(a, b) ==
    IF b = <<>> THEN FALSE
    ELSE IF a = <<>> THEN TRUE
    ELSE IF Head(a) # Head(b) THEN Head(a) < Head(b)
    ELSE StrLess(Tail(a), Tail(b))

\* the key without its first component: key=lambda x: x['name']
SortKeyNameOnly(fs, nd, id) == [not_folder |-> FALSE, name |-> Rec(fs, id).name]

\* key=lambda x: (not x['is_folder'], x['name'])
SortKey(fs, nd, id) == [not_folder |-> ~nd[id].is_folder, name |-> Rec(fs, id).name]

\* the names compared the wrong way round, as with reverse=True
KeyLessNameDesc(k1, k2) ==
    IF k1.not_folder # k2.not_folder THEN k2.not_folder
    ELSE StrLess(k2.name, k1.name)

\* tuple comparison k1 < k2, False < True
KeyLess(k1, k2) ==
    IF k1.not_folder # k2.not_folder THEN k2.not_folder
    ELSE StrLess(k1.name, k2.name)

RECURSIVE Insert(_, _, _, _)
Insert(fs, nd, s, x) ==
    IF s = <<>> THEN <<x>>
    ELSE IF KeyLess(SortKey(fs, nd, x), SortKey(fs, nd, Head(s))) THEN <<x>> \o s
    ELSE <<Head(s)>> \o Insert(fs, nd, Tail(s), x)

\* sorted(s, key=...): a new list, stable
RECURSIVE sorted(_, _, _)
sorted(fs, nd, s) ==
    IF s = <<>> THEN <<>>
    ELSE Insert(fs, nd, sorted(fs, nd, SubSeq(s, 1, Len(s) - 1)), s[Len(s)])

\* the list sorted in place, as list.sort(key=...) does
ArgSortedInPlace(fs, nd, s) == sorted(fs, nd, s)

\* the list handed to sorted() after the call: sorted() copies
ArgAfterSorted(fs, nd, s) == s

\* the scan of one record's parents, lines 114-119
RECURSIVE ScanParents(_, _, _)
ScanParents(fs, nd, parents) ==
    IF parents = <<>> THEN [outcome |-> "top", parent |-> DRIVE_ROOT_ID]
    ELSE LET parent_id == Head(parents)
         IN  IF parent_id \notin DOMAIN file_map(fs)
                 THEN ScanParents(fs, nd, Tail(parents))
             ELSE IF parent_id \notin DOMAIN nd
                 THEN [outcome |-> "KeyError", parent |-> parent_id]
             ELSE IF nd[parent_id].is_folder
                 THEN [outcome |-> "attached", parent |-> parent_id]
             ELSE ScanParents(fs, nd, Tail(parents))

\* nd with key id set to v
SetKey(nd, id, v) == [k \in DOMAIN nd \cup {id} |-> IF k = id THEN v ELSE nd[k]]

\* the pass without `if not is_attached:`: an attached record is put in
\* the top-level mapping as well
BuildIterAlsoTop(fs, st, k) ==
    LET file == fs[k]
        nd1 == SetKey(st.nodes, file.id,
                      [is_folder |-> file.mimeType = FolderMime, children |-> <<>>])
        scan == ScanParents(fs, nd1, file.parents)
        top == IF \E m \in 1..Len(st.tree) : st.tree[m] = file.id
               THEN st.tree ELSE Append(st.tree, file.id)
    IN  CASE scan.outcome = "KeyError" ->
                [nodes |-> nd1, tree |-> st.tree, raised |-> TRUE]
          [] scan.outcome = "attached" ->
                [nodes |-> [nd1 EXCEPT ![scan.parent].children = Append(@, file.id)],
                 tree |-> top, raised |-> FALSE]
          [] scan.outcome = "top" ->
                [nodes |-> nd1, tree |-> top, raised |-> FALSE]

\* one pass of the loop of _build_tree, lines 105-123, for files[k]
BuildIter(fs, st, k) ==
    LET file == fs[k]
        nd1 == SetKey(st.nodes, file.id,
                      [is_folder |-> file.mimeType = FolderMime, children |-> <<>>])
        scan == ScanParents(fs, nd1, file.parents)
    IN  CASE scan.outcome = "KeyError" ->
                [nodes |-> nd1, tree |-> st.tree, raised |-> TRUE]
          [] scan.outcome = "attached" ->
                [nodes |-> [nd1 EXCEPT ![scan.parent].children = Append(@, file.id)],
                 tree |-> st.tree, raised |-> FALSE]
          [] scan.outcome = "top" ->
                [nodes |-> nd1,
                 tree |-> IF \E m \in 1..Len(st.tree) : st.tree[m] = file.id
                          THEN st.tree ELSE Append(st.tree, file.id),
                 raised |-> FALSE]

EmptyNodes == [id \in {} |-> [is_folder |-> FALSE, children |-> <<>>]]

\* _build_tree(files) as a whole
RECURSIVE BuildFrom(_, _, _)
BuildFrom(fs, st, k) ==
    IF st.raised \/ k > Len(fs) THEN st
    ELSE BuildFrom(fs, BuildIter(fs, st, k), k + 1)

BuildTree(fs) == BuildFrom(fs, [nodes |-> EmptyNodes, tree |-> <<>>, raised |-> FALSE], 1)

Min(a, b) == IF a < b THEN a ELSE b

\* the line _print_tree prints for a node, line 136
Line(fs, nd, id, level) ==
    [level |-> level,
     is_folder |-> id \in DOMAIN nd /\ nd[id].is_folder,
     name |-> SubSeq(Rec(fs, id).name, 1, Min(Len(Rec(fs, id).name), NameWidth)),
     id |-> id]

\* the calls of _print_tree still to make: the innermost loop first
RECURSIVE Unwind(_)
Unwind(stk) ==
    IF stk = <<>> THEN <<>>
    ELSE IF Head(stk).pending = <<>> THEN Unwind(Tail(stk))
    ELSE stk

\* --------------------------------------------------------------- actions
Init ==
    /\ pc = "idle"
    /\ files = <<>>
    /\ i = 1
    /\ nodes = EmptyNodes
    /\ tree = <<>>
    /\ stack = <<>>
    /\ out = <<>>
    /\ first_out = <<>>
    /\ renders = 0
    /\ gui = [drive_manager |-> FALSE, status |-> "Initializing...", cursor |-> ""]

\* list_files, lines 147-150 and _build_tree, lines 102-103
Fetch ==
    /\ pc = "idle"
    /\ \E n \in 0..MaxFiles : \E fs \in Batches(n) :
          /\ files' = fs
          /\ pc' = IF fs = <<>> THEN "done" ELSE "build"
    /\ i' = 1
    /\ nodes' = EmptyNodes
    /\ tree' = <<>>
    /\ UNCHANGED <<stack, out, first_out, renders, gui>>

\* one pass of the loop of _build_tree; after the last one _build_tree
\* returns; a KeyError leaves list_files
BuildStep ==
    /\ pc = "build"
    /\ LET st == BuildIter(files, [nodes |-> nodes, tree |-> tree, raised |-> FALSE], i)
       IN  /\ nodes' = st.nodes
           /\ tree' = st.tree
           /\ pc' = IF st.raised THEN "raised"
                    ELSE IF i = Len(files) THEN "sort" ELSE "build"
    /\ i' = i + 1
    /\ UNCHANGED <<files, stack, out, first_out, renders, gui>>

\* list_files, lines 157-161
SortRoots ==
    /\ pc = "sort"
    /\ LET sorted_roots == sorted(files, nodes, tree)
       IN  /\ stack' = IF sorted_roots = <<>> THEN <<>>
                       ELSE <<[pending |-> sorted_roots, level |-> 0]>>
           /\ pc' = IF sorted_roots = <<>> THEN "done" ELSE "print"
           /\ tree' = ArgAfterSorted(files, nodes, tree)
    /\ renders' = renders + 1
    /\ UNCHANGED <<files, i, nodes, out, first_out, gui>>

\* _print_tree with the children put behind the calls still to make: the
\* siblings of a folder are printed before its children
PrintStepLevelOrder ==
    /\ pc = "print"
    /\ LET frame == Head(stack)
           node == Head(frame.pending)
           rest == <<[frame EXCEPT !.pending = Tail(@)]>> \o Tail(stack)
           descend == nodes[node].is_folder /\ nodes[node].children # <<>>
           sorted_children == sorted(files, nodes, nodes[node].children)
           stk == Unwind(IF descend
                         THEN rest \o <<[pending |-> sorted_children, level |-> frame.level + 1]>>
                         ELSE rest)
       IN  /\ out' = Append(out, Line(files, nodes, node, frame.level))
           /\ nodes' = nodes
           /\ stack' = stk
           /\ pc' = IF stk = <<>> THEN "done" ELSE "print"
    /\ UNCHANGED <<files, i, tree, first_out, renders, gui>>

\* one call of _print_tree, lines 129-143: the next node of the innermost
\* loop running
PrintStep ==
    /\ pc = "print"
    /\ LET frame == Head(stack)
           node == Head(frame.pending)
           rest == <<[frame EXCEPT !.pending = Tail(@)]>> \o Tail(stack)
           descend == nodes[node].is_folder /\ nodes[node].children # <<>>
           sorted_children == sorted(files, nodes, nodes[node].children)
           stk == Unwind(IF descend
                         THEN <<[pending |-> sorted_children, level |-> frame.level + 1]>> \o rest
                         ELSE rest)
       IN  /\ out' = Append(out, Line(files, nodes, node, frame.level))
           /\ nodes' = IF descend
                       THEN [nodes EXCEPT ![node].children = ArgAfterSorted(files, nodes, @)]
                       ELSE nodes
           /\ stack' = stk
           /\ pc' = IF stk = <<>> THEN "done" ELSE "print"
    /\ UNCHANGED <<files, i, tree, first_out, renders, gui>>

\* the forest is printed once more without a rebuild, lines 157-164 again
PrintAgain ==
    /\ pc = "done"
    /\ files # <<>>
    /\ renders >= 1
    /\ renders < MaxRenders
    /\ first_out' = out
    /\ out' = <<>>
    /\ pc' = "sort"
    /\ UNCHANGED <<files, i, nodes, tree, stack, renders, gui>>

\* back in the menu loop: the records of the listing are dropped
Return ==
    /\ pc = "done"
    /\ pc' = "idle"
    /\ files' = <<>>
    /\ i' = 1
    /\ nodes' = EmptyNodes
    /\ tree' = <<>>
    /\ stack' = <<>>
    /\ out' = <<>>
    /\ first_out' = <<>>
    /\ renders' = 0
    /\ UNCHANGED gui

Next == Fetch \/ BuildStep \/ SortRoots \/ PrintStep \/ PrintAgain \/ Return

Spec == Init /\ [][Next]_vars

\* ------------------------------------------- a Drive with other file names
Docs == <<68, 111, 99, 115>>
report_txt == <<114, 101, 112, 111, 114, 116, 46, 116, 120, 116>>
Photos == <<80, 104, 111, 116, 111, 115>>
ListingNames == {Docs, report_txt, Photos}

ListingBatches(n) ==
    {fs \in [1..n -> [id : 1..n, name : ListingNames, mimeType : {FolderMime, PlainMime},
                      parents : ParentLists(n)]] :
        /\ \A k \in 1..n : fs[k].id = k
        /\ TotalRefs(fs) <= MaxRefs}

\* list_files, lines 147-150 and _build_tree, lines 102-103
FetchListing ==
    /\ pc = "idle"
    /\ \E n \in 0..MaxFiles : \E fs \in ListingBatches(n) :
          /\ files' = fs
          /\ pc' = IF fs = <<>> THEN "done" ELSE "build"
    /\ i' = 1
    /\ nodes' = EmptyNodes
    /\ tree' = <<>>
    /\ UNCHANGED <<stack, out, first_out, renders, gui>>

NextListing == FetchListing \/ BuildStep \/ SortRoots \/ PrintStep \/ Return

SpecListing == Init /\ [][NextListing]_vars

\* ------------------------------------------------------------ gdrive_gui.py
\* _initialize_manager, lines 127-143, on the thread started by __init__:
\* DriveManager() has a service or not
GuiInitializeManager ==
    /\ pc = "idle"
    /\ gui.status = "Initializing..."
    /\ \E service \in BOOLEAN :
          gui' = [drive_manager |-> service,
                  status |-> IF service THEN "Connected"
                             ELSE "Authentication Failed. Check credentials.json.",
                  cursor |-> ""]
    /\ UNCHANGED <<pc, files, i, nodes, tree, stack, out, first_out, renders>>

\* GDriveApp.list_files, lines 147-160, on a thread of _run_in_thread, no
\* other listing running: the status and the cursor are set and
\* drive_manager.list_files() fetches the batch
GuiListFiles ==
    /\ pc = "idle"
    /\ gui.drive_manager
    /\ gui' = [gui EXCEPT !.status = "Fetching files...", !.cursor = "wait"]
    /\ \E n \in 0..MaxFiles : \E fs \in Batches(n) :
          /\ files' = fs
          /\ pc' = IF fs = <<>> THEN "done" ELSE "build"
    /\ i' = 1
    /\ nodes' = EmptyNodes
    /\ tree' = <<>>
    /\ UNCHANGED <<stack, out, first_out, renders>>

\* GDriveApp.list_files, lines 162-163: drive_manager.list_files() has
\* returned
GuiReady ==
    /\ pc = "done"
    /\ gui.status = "Fetching files..."
    /\ gui' = [gui EXCEPT !.status = "Ready.", !.cursor = ""]
    /\ pc' = "idle"
    /\ files' = <<>>
    /\ i' = 1
    /\ nodes' = EmptyNodes
    /\ tree' = <<>>
    /\ stack' = <<>>
    /\ out' = <<>>
    /\ first_out' = <<>>
    /\ renders' = 0

\* _run_in_thread, lines 122-124: the exception leaves GDriveApp.list_files
\* and ends the thread of the listing; nothing catches it
GuiThreadDies ==
    /\ pc = "raised"
    /\ pc' = "idle"
    /\ files' = <<>>
    /\ i' = 1
    /\ nodes' = EmptyNodes
    /\ tree' = <<>>
    /\ stack' = <<>>
    /\ out' = <<>>
    /\ first_out' = <<>>
    /\ renders' = 0
    /\ UNCHANGED gui

\* the steps of drive_manager.list_files() run on the thread of the listing
NextGui ==
    \/ GuiInitializeManager \/ GuiListFiles \/ BuildStep \/ SortRoots \/ PrintStep
    \/ GuiReady \/ GuiThreadDies

SpecGui == Init /\ [][NextGui]_vars

TypeOK ==
    /\ pc \in {"idle", "build", "sort", "print", "done", "raised"}
    /\ Len(files) <= MaxFiles
    /\ renders <= MaxRenders
\* ------------------------------------------------- vocabulary of the claims
IdsOf(fs) == {fs[k].id : k \in 1..Len(fs)}
Range(s) == {s[k] : k \in 1..Len(s)}
Count(s, x) == Cardinality({k \in 1..Len(s) : s[k] = x})
ChildrenOf(p) == IF p \in DOMAIN nodes THEN nodes[p].children ELSE <<>>
\* _build_tree has returned a forest for a non-empty batch
Built == files # <<>> /\ pc \in {"sort", "print", "done"}
\* _build_tree has been left, by return or by an exception
BuildOver == Built \/ pc = "raised"
IsFolderRec(r) == r.mimeType = FolderMime
\* the entries of a parent list that name a folder of the batch
FolderParents(fs, parents) ==
    {k \in 1..Len(parents) :
        \E m \in 1..Len(fs) : fs[m].id = parents[k] /\ IsFolderRec(fs[m])}
FirstFolderParent(fs, parents) ==
    LET ks == FolderParents(fs, parents)
    IN  parents[CHOOSE k \in ks : \A m \in ks : k <= m]
PositionsOf(id) == {k \in 1..Len(out) : out[k].id = id}
\* two printed records are siblings: both top-level, or both in the children
\* list of one record
Siblings(a, b) ==
    \/ a \in Range(tree) /\ b \in Range(tree)
    \/ \E p \in DOMAIN nodes : a \in Range(nodes[p].children) /\ b \in Range(nodes[p].children)
FetchPos(id) == file_map(files)[id]

\* C1: when list_files is over, the lines printed are as many as the records
\* of the batch, and every record has exactly one line.
C1_OneLinePerRecord ==
    (files # <<>> /\ pc \in {"done", "raised"}) =>
        /\ Len(out) = Len(files)
        /\ \A id \in IdsOf(files) : Cardinality(PositionsOf(id)) = 1

\* C2: _build_tree and _print_tree never raise an exception, whatever the
\* shape of the batch.
C2_NeverRaises == pc # "raised"

\* C3: after _build_tree returns every record is in exactly one place:
\* exactly once in the children list of exactly one other record, or in the
\* top-level mapping; never both, never neither.
C3_ExactlyOnePlace ==
    Built =>
        \A id \in IdsOf(files) :
            LET asChild == \E p \in IdsOf(files) \ {id} :
                              /\ Count(ChildrenOf(p), id) = 1
                              /\ \A q \in IdsOf(files) \ {p} : Count(ChildrenOf(q), id) = 0
                topLevel == id \in Range(tree)
            IN  asChild # topLevel

\* C4: once _build_tree is over, R is in P's children iff P is the first
\* entry of R's parent list that is a folder of the batch; and a record whose
\* only parent is a folder of the batch is in that folder's children and not
\* top-level, whichever of the two comes first in the batch.
C4_FirstFolderParent ==
    BuildOver =>
        /\ Built =>
              \A r \in 1..Len(files) : \A p \in IdsOf(files) :
                  (files[r].id \in Range(ChildrenOf(p)))
                      <=> (/\ FolderParents(files, files[r].parents) # {}
                           /\ p = FirstFolderParent(files, files[r].parents))
        /\ \A b \in 1..Len(files) : \A a \in 1..Len(files) :
              (files[b].parents = <<files[a].id>> /\ IsFolderRec(files[a])) =>
                  /\ files[b].id \in Range(ChildrenOf(files[a].id))
                  /\ files[b].id \notin Range(tree)

Perms(fs) ==
    {q \in [1..Len(fs) -> Range(fs)] : \A r \in Range(fs) : \E k \in 1..Len(fs) : q[k] = r}

\* C5: the placement does not depend on the order of the records: the build
\* of every reordering of the batch completes, with the same top-level
\* records and the same children of every folder.
C5_OrderIndependent ==
    (files # <<>> /\ pc \in {"sort", "raised"}) =>
        \A q \in Perms(files) :
            LET other == BuildTree(q)
            IN  /\ pc # "raised"
                /\ ~other.raised
                /\ Range(other.tree) = Range(tree)
                /\ \A id \in IdsOf(files) :
                      Range(other.nodes[id].children) = Range(nodes[id].children)
\* C6: among siblings, at the top level and in every children list, no
\* regular file is printed before a folder.
C6_FoldersBeforeFiles ==
    \A a, b \in 1..Len(out) :
        (a < b /\ Siblings(out[a].id, out[b].id)) =>
            ~(~out[a].is_folder /\ out[b].is_folder)

\* a folder printed before a sibling file inside a folder, the file having
\* been fetched first
C6_Witness ==
    /\ pc = "done"
    /\ \E a, b \in 1..Len(out) :
          /\ a < b
          /\ out[a].level = 1
          /\ Siblings(out[a].id, out[b].id)
          /\ out[a].is_folder /\ ~out[b].is_folder
          /\ FetchPos(out[b].id) < FetchPos(out[a].id)

SameTypeSiblings(a, b) ==
    /\ a # b
    /\ Siblings(out[a].id, out[b].id)
    /\ out[a].is_folder = out[b].is_folder

\* three printed lines are same-type siblings with the names n1, n2, n3
Triple(a, b, c, n1, n2, n3) ==
    /\ SameTypeSiblings(a, b) /\ SameTypeSiblings(b, c) /\ SameTypeSiblings(a, c)
    /\ Rec(files, out[a].id).name = n1
    /\ Rec(files, out[b].id).name = n2
    /\ Rec(files, out[c].id).name = n3

\* C7 as stated: same-type siblings named Apple, banana and Cherry are printed
\* in the sequence Apple, banana, Cherry.
C7_AppleBananaCherry ==
    pc = "done" =>
        \A a, b, c \in 1..Len(out) :
            Triple(a, b, c, Apple, banana, Cherry) => (a < b /\ b < c)

\* C7 as amended: among same-type siblings no name is printed before a name
\* that is smaller by code point, so same-type siblings named Apple, banana
\* and Cherry are printed in the sequence Apple, Cherry, banana.
C7_CodePointOrder ==
    /\ \A a, b \in 1..Len(out) :
          (a < b /\ SameTypeSiblings(a, b)) => ~StrLess(out[b].name, out[a].name)
    /\ pc = "done" =>
          \A a, b, c \in 1..Len(out) :
              Triple(a, b, c, Apple, banana, Cherry) => (a < c /\ c < b)

\* the three names printed as same-type siblings, fetched as banana, Cherry, Apple
C7_Witness ==
    /\ pc = "done"
    /\ \E a, b, c \in 1..Len(out) :
          /\ Triple(a, b, c, Apple, banana, Cherry)
          /\ FetchPos(out[b].id) < FetchPos(out[c].id)
          /\ FetchPos(out[c].id) < FetchPos(out[a].id)

\* C8: a record none of whose parents is a folder of the batch is put in the
\* top-level mapping by its pass of the loop, without error; and for a batch
\* without any parent entry the top-level mapping has one entry per record
\* and every children list is empty.
C8_UnresolvedIsTopLevel ==
    BuildOver =>
        /\ \A k \in 1..Len(files) :
              (k < i /\ FolderParents(files, files[k].parents) = {}) =>
                  files[k].id \in Range(tree)
        /\ (Built /\ \A k \in 1..Len(files) : files[k].parents = <<>>) =>
              /\ Len(tree) = Len(files)
              /\ Range(tree) = IdsOf(files)
              /\ \A id \in IdsOf(files) : ChildrenOf(id) = <<>>

\* C9: a record whose parent list names its own id, and no other record of
\* the batch, is top-level after the build and is not its own child.
C9_SelfParentTopLevel ==
    Built =>
        \A k \in 1..Len(files) :
            LET id == files[k].id
            IN  (/\ id \in Range(files[k].parents)
                 /\ Range(files[k].parents) \cap IdsOf(files) = {id}) =>
                    /\ id \in Range(tree)
                    /\ id \notin Range(ChildrenOf(id))

InFetchOrder(s) == \A a, b \in 1..Len(s) : a < b => FetchPos(s[a]) < FetchPos(s[b])

\* C10: printing leaves the forest as _build_tree returned it, the top-level
\* mapping and every children list in fetch order, and a second print of the
\* same forest emits the lines of the first.
C10_PrintKeepsForest ==
    (Built /\ renders >= 1) =>
        /\ tree = BuildTree(files).tree
        /\ nodes = BuildTree(files).nodes
        /\ InFetchOrder(tree)
        /\ \A p \in DOMAIN nodes : InFetchOrder(nodes[p].children)
        /\ (pc = "done" /\ renders >= 2) => out = first_out

\* a second print is over, of a forest with a children list that is printed
\* in another order than it was fetched in
C10_Witness ==
    /\ pc = "done"
    /\ renders = 2
    /\ out # <<>>
    /\ \E p \in DOMAIN nodes :
          /\ \E k \in 1..Len(out) : out[k].id = p
          /\ sorted(files, nodes, nodes[p].children) # nodes[p].children
\* the records below the records of S, at most n levels down
RECURSIVE Below(_, _)
Below(S, n) ==
    IF n = 0 THEN S
    ELSE Below(S \cup UNION {Range(ChildrenOf(p)) : p \in S}, n - 1)
Descendants(id) == Below(Range(ChildrenOf(id)), Len(files))
\* the first line after line k that is not deeper than line k
BlockEnd(k) ==
    LET later == {m \in (k + 1)..Len(out) : out[m].level <= out[k].level}
    IN  IF later = {} THEN Len(out) + 1 ELSE CHOOSE m \in later : \A q \in later : m <= q

DocsBatch ==
    <<[id |-> 1, name |-> Docs, mimeType |-> FolderMime, parents |-> <<>>],
      [id |-> 2, name |-> report_txt, mimeType |-> PlainMime, parents |-> <<1>>],
      [id |-> 3, name |-> Photos, mimeType |-> FolderMime, parents |-> <<>>]>>

\* C11: printing is depth-first pre-order: a top-level record is printed at
\* depth 0, a child one deeper than its parent, which is printed before it,
\* and the lines between a record's line and the next line that is not
\* deeper are the lines of the records below it; the batch [Docs, report.txt
\* in Docs, Photos] is printed as Docs 0, report.txt 1, Photos 0.
C11_PreOrder ==
    /\ \A k \in 1..Len(out) :
          /\ out[k].id \in Range(tree) => out[k].level = 0
          /\ \A p \in DOMAIN nodes :
                out[k].id \in Range(nodes[p].children) =>
                    \E j \in 1..(k - 1) : out[j].id = p /\ out[k].level = out[j].level + 1
    /\ pc = "done" =>
          \A k \in 1..Len(out) :
              {out[m].id : m \in (k + 1)..(BlockEnd(k) - 1)} = Descendants(out[k].id)
    /\ (pc = "done" /\ files = DocsBatch) =>
          out = <<[level |-> 0, is_folder |-> TRUE, name |-> Docs, id |-> 1],
                  [level |-> 1, is_folder |-> FALSE, name |-> report_txt, id |-> 2],
                  [level |-> 0, is_folder |-> TRUE, name |-> Photos, id |-> 3]>>

\* the batch of the example has been printed
C11_Witness ==
    /\ pc = "done"
    /\ files = DocsBatch
    /\ Len(out) = 3
\* every record comes after the records of the batch that its parent list names
ParentsFirst(fs) ==
    \A k \in 1..Len(fs) : \A j \in 1..Len(fs[k].parents) :
        fs[k].parents[j] \in IdsOf(fs) => file_map(fs)[fs[k].parents[j]] < k

\* C12: for a batch in which every record comes after the batch records named
\* in its parent list, _build_tree raises no exception, the children list
\* that a pass of the loop is about to reset holds no child, and list_files
\* prints exactly one line per record.
C12_ParentsFirstIsSafe ==
    ParentsFirst(files) =>
        /\ pc # "raised"
        /\ pc = "build" => ChildrenOf(files[i].id) = <<>>
        /\ (pc = "done" /\ files # <<>>) =>
              /\ Len(out) = Len(files)
              /\ \A id \in IdsOf(files) : Cardinality(PositionsOf(id)) = 1

\* such a batch, three levels deep, has been printed
C12_Witness ==
    /\ pc = "done"
    /\ ParentsFirst(files)
    /\ Len(out) = 3
    /\ \E k \in 1..Len(out) : out[k].level = 2
\* the thread of a listing is running
ListingRunning == pc \in {"build", "sort", "print", "done"}

\* C13: a listing started in the GUI on an initialised manager ends with the
\* status "Ready." and the cursor reset: once its thread is over, the status
\* is no longer "Fetching files..." and the cursor is no longer "wait".
C13_StatusReturnsToReady ==
    ~ListingRunning => (gui.status # "Fetching files..." /\ gui.cursor # "wait")
====
